---- MODULE Spec2Model ----
(***************************************************************************)
(* Model of pdfMaker1.py: the Generate handler of main() and the helpers   *)
(* it calls (generate_pdf_code's cleaning step, validate_code_safety,      *)
(* create_pdf_from_code, find_pdf_files, save_to_history, the prune loop). *)
(* Text is a sequence of one-character strings, a PDF file of the working  *)
(* directory is a number 1..MaxFiles, its last-modified time a number      *)
(* 0..MaxTime.                                                             *)
(***************************************************************************)
EXTENDS Integers, Sequences, FiniteSets, TLC

VARIABLES
    dir,        \* working directory: file -> st_mtime, or Absent
    tmpfiles,   \* temporary source files on disk (one name per execution)
    history,    \* st.session_state.history, newest first
    now,        \* wall clock
    nreq,       \* number of requests handled by the processing block
    last,       \* what the last run of the handler did
    fenceText,  \* a synthesized text (fence round trip)
    fenceOut,   \* its wrapped-then-cleaned form, or None
    ncalls,     \* number of save_to_history calls (history specification)
    sess        \* the concurrent sessions: each one's position in main()

vars == <<dir, tmpfiles, history, now, nreq, last, fenceText, fenceOut, ncalls,
          sess>>

\* ------------------------------------------------------------------ bounds
MaxLen == 4         \* longest synthesized text of the round trip
MaxFiles == 4       \* PDF file names of the working directory
MaxTime == 1        \* last wall-clock value
MaxRequests == 1    \* requests per behaviour
MaxCalls == 12      \* save_to_history calls per behaviour
MaxWritten == 1     \* PDFs one child writes

\* filename=None of save_to_history, and "no file" in general
NoFile == 0
\* a file name that is not in the directory
Absent == -1

Files == 1..MaxFiles
Times == 0..MaxTime

\* ------------------------------------------------------------------- text
Whitespace == {" ", "\n", "\t", "\r"}
\* the backquote character (a backquote cannot be written in a TLA+ string)
Backquote == "BACKQUOTE"

Alphabet == {Backquote, " ", "\n", "x"}
Texts == UNION {[1..n -> Alphabet] : n \in 0..MaxLen}

Fence == <<Backquote, Backquote, Backquote>>
PythonFence == Fence \o <<"p", "y", "t", "h", "o", "n">>

\* p occurs in s at position i
OccursAt(s, p, i) ==
    /\ i + Len(p) - 1 <= Len(s)
    /\ \A k \in 1..Len(p) : s[i + k - 1] = p[k]

\* Python's (p in s) for a non-empty p
Contains(s, p) == \E i \in 1..Len(s) : OccursAt(s, p, i)

\* str.replace(p, ""): the occurrences of p are removed left to right,
\* without overlap, and the result is not scanned again
RECURSIVE RemoveFrom(_, _, _)
RemoveFrom(s, p, i) ==
    IF i > Len(s) THEN <<>>
    ELSE IF OccursAt(s, p, i) THEN RemoveFrom(s, p, i + Len(p))
    ELSE <<s[i]>> \o RemoveFrom(s, p, i + 1)

Remove(s, p) == RemoveFrom(s, p, 1)

RECURSIVE LStrip(_)
LStrip(s) ==
    IF s # <<>> /\ Head(s) \in Whitespace THEN LStrip(Tail(s)) ELSE s

RECURSIVE RStrip(_)
RStrip(s) ==
    IF s # <<>> /\ s[Len(s)] \in Whitespace
    THEN RStrip(SubSeq(s, 1, Len(s) - 1)) ELSE s

\* str.strip()
Strip(s) == RStrip(LStrip(s))

\* mutant: the cleaning step without the final strip()
clean_code_nostrip(tempCode) == Remove(Remove(tempCode, PythonFence), Fence)

\* generate_pdf_code, line 74
clean_code(tempCode) == Strip(Remove(Remove(tempCode, PythonFence), Fence))

\* a leading python-tagged fence and a trailing fence around t, each on its
\* own line (sep = newline) or not (sep empty)
Wrap(t, sep) == PythonFence \o sep \o t \o sep \o Fence

\* ---------------------------------------------------------------- history
HistoryCap == 10

Min(a, b) == IF a < b THEN a ELSE b

Take(s, n) == SubSeq(s, 1, Min(n, Len(s)))

HistoryEntry(timestamp, prompt, code, success, filename) ==
    [timestamp |-> timestamp, prompt |-> prompt, code |-> code,
     success |-> success, filename |-> filename]

\* mutant: the insertion without the truncation of line 176
save_to_history_nocap(h, timestamp, prompt, code, success, filename) ==
    <<HistoryEntry(timestamp, prompt, code, success, filename)>> \o h

\* save_to_history: insert at the head, keep the first 10
save_to_history(h, timestamp, prompt, code, success, filename) ==
    Take(<<HistoryEntry(timestamp, prompt, code, success, filename)>> \o h,
         HistoryCap)

\* --------------------------------------------------------------- synthesis
\* what generate_pdf_code returns when chain.invoke raises (None)
NoCode == <<"None">>

\* Python truthiness of generate_pdf_code's result: None and "" are false
Truthy(code) == code # NoCode /\ code # <<>>

\* replies of the text-generation service: an exception, or a text
Raises == [raises |-> TRUE, text |-> <<>>]
Reply(t) == [raises |-> FALSE, text |-> t]

PlainCode == <<"c", "=", "1">>
EvalCode == <<"e", "v", "a", "l", "(", "x", ")">>

Responses ==
    { Raises,
      Reply(<<"\n">>),
      Reply(Wrap(PlainCode, <<"\n">>)),
      Reply(EvalCode) }

\* generate_pdf_code: the reply cleaned, or None when the chain raises
generate_pdf_code(response) ==
    IF response.raises THEN NoCode ELSE clean_code(response.text)

\* -------------------------------------------------------------- screening
dangerous_patterns ==
    << <<"o", "s", ".", "s", "y", "s", "t", "e", "m">>,
       <<"s", "u", "b", "p", "r", "o", "c", "e", "s", "s", ".", "c", "a", "l", "l">>,
       <<"e", "v", "a", "l", "(">>,
       <<"e", "x", "e", "c", "(">>,
       <<"_", "_", "i", "m", "p", "o", "r", "t", "_", "_">>,
       <<"o", "p", "e", "n", "(">>,
       <<"s", "h", "u", "t", "i", "l", ".", "r", "m", "t", "r", "e", "e">>,
       <<"r", "m", " ", "-">>,
       <<"d", "e", "l", " ">>,
       <<"i", "m", "p", "o", "r", "t", " ", "o", "s">> >>

\* validate_code_safety: the patterns found in the code, in list order
validate_code_safety(code) ==
    LET Found(p) == Contains(code, p) IN SelectSeq(dangerous_patterns, Found)

\* ---------------------------------------------------------------- executor
Statuses == {"ok", "nonzero", "timeout", "launch_failure"}

\* the directory after the child ran: the files it wrote carry the time t
RunChild(d, status, written, t) ==
    IF status = "launch_failure" THEN d
    ELSE [f \in Files |-> IF f \in written THEN t ELSE d[f]]

\* create_pdf_from_code. The temporary file id is written (delete=False),
\* subprocess.run runs the child, and os.unlink follows only when run()
\* returned; TimeoutExpired and any other exception skip line 97.
create_pdf_from_code(id, status, written, d, tmp, t) ==
    [ result   |-> status = "ok",
      dir      |-> RunChild(d, status, written, t),
      tmpfiles |-> IF status \in {"ok", "nonzero"}
                   THEN (tmp \cup {id}) \ {id}
                   ELSE tmp \cup {id} ]

\* ----------------------------------------------------------------- locator
Present(d) == {f \in Files : d[f] # Absent}

Range(s) == {s[i] : i \in 1..Len(s)}

\* find_pdf_files: the PDFs of the directory, newest first. glob() yields
\* them in directory order, which is arbitrary, and the stable sort keeps
\* that order among equal st_mtime: every descending listing is possible.
RECURSIVE Listings(_, _)
Listings(P, d) ==
    IF P = {} THEN {<<>>}
    ELSE UNION { {<<f>> \o s : s \in Listings(P \ {f}, d)} :
                 f \in {g \in P : \A h \in P : d[g] >= d[h]} }

find_pdf_files(d) == Listings(Present(d), d)

\* --------------------------------------------------------------- retention
KeepCount == 3

\* pdf_files[3:]
OldPdfs(pdf_files) == {pdf_files[i] : i \in (KeepCount + 1)..Len(pdf_files)}

\* lines 435-439: unlink every old_pdf, an unlink that fails is ignored
prune(pdf_files, d, fails) ==
    [f \in Files |-> IF f \in OldPdfs(pdf_files) \ fails THEN Absent ELSE d[f]]

\* ------------------------------------------------------------ orchestrator
\* lines 363 to 381: the warnings are at most displayed (st.warning, when
\* show_debug is set) and the handler goes on to create_pdf_from_code
\* whenever the code is truthy

\* mutant: a warning stops the request before the execution
main_runs_code_blocking(code, safety_warnings) ==
    Truthy(code) /\ safety_warnings = <<>>

main_runs_code(code, safety_warnings) == Truthy(code)

\* mutant: the branch without a PDF records a success
main_no_pdf_success(h, t, prompt, code) ==
    save_to_history(h, t, prompt, code, TRUE, NoFile)

\* lines 440-443: no PDF in the listing
main_no_pdf(h, t, prompt, code) ==
    save_to_history(h, t, prompt, code, FALSE, NoFile)

\* lines 444-448: create_pdf_from_code returned no result
main_exec_failed(h, t, prompt, code) ==
    save_to_history(h, t, prompt, code, FALSE, NoFile)

\* lines 389-398: the first of the listing is the request's PDF
main_pdf_found(h, t, prompt, code, pdf_files) ==
    save_to_history(h, t, prompt, code, TRUE, pdf_files[1])

Prompts == {<<>>, <<"p">>}

\* the handler has not run
Idle ==
    [ outcome  |-> "none",     \* where the handler ended
      code     |-> NoCode,     \* generate_pdf_code's result
      warnings |-> <<>>,       \* validate_code_safety's result
      executed |-> FALSE,      \* create_pdf_from_code was called
      status   |-> "none",     \* how the child ended
      tmp      |-> NoFile,     \* the execution's temporary file
      start    |-> 0,          \* time the execution started
      written  |-> {},         \* PDFs the child wrote
      mtimes   |-> [f \in Files |-> Absent],  \* directory at the listing
      listing  |-> <<>>,       \* pdf_files
      pdf_file |-> NoFile,     \* pdf_files[0]
      recorded |-> FALSE,      \* save_to_history was called
      pruned   |-> FALSE,      \* the loop of line 435 ran
      deleted  |-> {} ]        \* PDFs it unlinked

\* two browser sessions: Streamlit runs main() of each in a thread of its
\* own, with its own st.session_state, in the one working directory
Sessions == {"A", "B"}

\* a session that has not clicked
IdleSession ==
    [ pc      |-> "idle",   \* position in main()
      nreq    |-> 0,        \* requests of the session
      code    |-> NoCode,   \* generate_pdf_code's result
      written |-> {},       \* PDFs the session's child wrote
      names   |-> {},       \* glob('*.pdf') of line 119
      listing |-> <<>>,     \* pdf_files
      history |-> <<>> ]    \* st.session_state.history of the session

NoRequests == [s \in Sessions |-> IdleSession]

\* the click on Generate, lines 352-455
Generate ==
    /\ nreq < MaxRequests
    /\ \E prompt \in Prompts, response \in Responses :
        IF prompt = <<>>
        THEN /\ last' = [Idle EXCEPT !.outcome = "no_prompt"]
             /\ UNCHANGED <<dir, tmpfiles, history, nreq>>
        ELSE
        \E code \in {generate_pdf_code(response)} :
        \E safety_warnings \in
             {IF Truthy(code) THEN validate_code_safety(code) ELSE <<>>} :
        \E r0 \in {[Idle EXCEPT !.code = code, !.warnings = safety_warnings]} :
        /\ nreq' = nreq + 1
        /\ IF ~main_runs_code(code, safety_warnings)
           THEN /\ last' = [r0 EXCEPT !.outcome = "synth_failed"]
                /\ UNCHANGED <<dir, tmpfiles, history>>
           ELSE
           \E status \in Statuses, written \in SUBSET Files :
             /\ Cardinality(written) <= MaxWritten
             /\ status = "launch_failure" => written = {}
             /\ \E exec \in {create_pdf_from_code(nreq + 1, status, written,
                                                  dir, tmpfiles, now)} :
                \E r1 \in {[r0 EXCEPT
                             !.executed = TRUE, !.status = status,
                             !.tmp = nreq + 1, !.start = now,
                             !.written = written, !.recorded = TRUE]} :
                /\ tmpfiles' = exec.tmpfiles
                /\ IF ~exec.result
                   THEN /\ history' = main_exec_failed(history, now, prompt, code)
                        /\ dir' = exec.dir
                        /\ last' = [r1 EXCEPT !.outcome = "exec_failed"]
                   ELSE
                   \E pdf_files \in find_pdf_files(exec.dir) :
                   \E r2 \in {[r1 EXCEPT !.mtimes = exec.dir,
                                         !.listing = pdf_files]} :
                     IF pdf_files = <<>>
                     THEN /\ history' = main_no_pdf(history, now, prompt, code)
                          /\ dir' = exec.dir
                          /\ last' = [r2 EXCEPT !.outcome = "no_pdf"]
                     ELSE
                     /\ history' = main_pdf_found(history, now, prompt, code,
                                                  pdf_files)
                     /\ \E readable \in BOOLEAN :
                          IF ~readable
                          THEN \* open() of line 126 raises: the run ends
                               /\ dir' = exec.dir
                               /\ last' = [r2 EXCEPT !.outcome = "exception",
                                                     !.pdf_file = pdf_files[1]]
                          ELSE
                          \E fails \in SUBSET OldPdfs(pdf_files) :
                            /\ dir' = prune(pdf_files, exec.dir, fails)
                            /\ last' = [r2 EXCEPT
                                          !.outcome = "success",
                                          !.pdf_file = pdf_files[1],
                                          !.pruned = TRUE,
                                          !.deleted = OldPdfs(pdf_files) \ fails]
    /\ UNCHANGED <<now, fenceText, fenceOut, ncalls, sess>>

\* time passes between two requests
Tick ==
    /\ now < MaxTime
    /\ now' = now + 1
    /\ UNCHANGED <<dir, tmpfiles, history, nreq, last, fenceText, fenceOut, ncalls,
                   sess>>

\* the session starts with no history, in a directory holding any PDFs
\* written before
Init ==
    /\ now \in Times
    /\ dir \in [Files -> {Absent} \cup 0..MaxTime]
    /\ \A f \in Files : dir[f] <= now
    /\ tmpfiles = {}
    /\ history = <<>>
    /\ nreq = 0
    /\ last = Idle
    /\ fenceText = <<>>
    /\ fenceOut = <<>>
    /\ ncalls = 0
    /\ sess = NoRequests

Next == Generate \/ Tick

Spec == Init /\ [][Next]_vars

\* the session starts in a working directory without a PDF
InitFresh ==
    /\ now \in Times
    /\ dir = [f \in Files |-> Absent]
    /\ tmpfiles = {}
    /\ history = <<>>
    /\ nreq = 0
    /\ last = Idle
    /\ fenceText = <<>>
    /\ fenceOut = <<>>
    /\ ncalls = 0
    /\ sess = NoRequests

SpecFresh == InitFresh /\ [][Next]_vars

\* ------------------------------------------- history alone (save_to_history)
SaveToHistory ==
    /\ ncalls < MaxCalls
    /\ \E success \in BOOLEAN :
         history' = save_to_history(history, now, <<"p">>, PlainCode, success,
                                    IF success THEN 1 ELSE NoFile)
    /\ ncalls' = ncalls + 1
    /\ UNCHANGED <<dir, tmpfiles, now, nreq, last, fenceText, fenceOut, sess>>

InitHistory ==
    /\ now = 0
    /\ dir = [f \in Files |-> Absent]
    /\ tmpfiles = {}
    /\ history = <<>>
    /\ nreq = 0
    /\ last = Idle
    /\ fenceText = <<>>
    /\ fenceOut = <<>>
    /\ ncalls = 0
    /\ sess = NoRequests

NextHistory == SaveToHistory

SpecHistory == InitHistory /\ [][NextHistory]_vars

\* ------------------------------------------------ cleaning step alone
NotCleaned == <<"None">>

\* a synthesized text is wrapped in fences and cleaned
RoundTrip ==
    /\ fenceOut = NotCleaned
    /\ \E sep \in {<<>>, <<"\n">>} :
         fenceOut' = clean_code(Wrap(fenceText, sep))
    /\ UNCHANGED <<dir, tmpfiles, history, now, nreq, last, fenceText, ncalls,
                   sess>>

InitClean ==
    /\ fenceText \in Texts
    /\ fenceOut = NotCleaned
    /\ now = 0
    /\ dir = [f \in Files |-> Absent]
    /\ tmpfiles = {}
    /\ history = <<>>
    /\ nreq = 0
    /\ last = Idle
    /\ ncalls = 0
    /\ sess = NoRequests

NextClean == RoundTrip

SpecClean == InitClean /\ [][NextClean]_vars

\* ------------------------------------------------- two concurrent sessions
\* main() has no lock: between two file-system calls of one session the
\* other session may run. A step is one call on the shared directory, with
\* the session-local statements that follow it.

\* NamedTemporaryFile gives every execution a name of its own
TempName(s, n) == IF s = "A" THEN n + n - 1 ELSE n + n

\* the executed request of a session has not returned
InFlight == {"glob", "sort", "download", "prune"}

\* main() has returned or raised: its locals are gone, the session state
\* (the history) stays
Returned(r, h) ==
    [IdleSession EXCEPT !.pc = "done", !.nreq = r.nreq, !.history = h]

\* the click, generate_pdf_code and the screening, lines 352-377
CStart(s) ==
    /\ sess[s].pc \in {"idle", "done"}
    /\ sess[s].nreq < MaxRequests
    /\ \E response \in Responses :
       \E code \in {generate_pdf_code(response)} :
       \E safety_warnings \in
            {IF Truthy(code) THEN validate_code_safety(code) ELSE <<>>} :
         sess' = [sess EXCEPT ![s] =
                    IF main_runs_code(code, safety_warnings)
                    THEN [IdleSession EXCEPT
                            !.pc = "exec",
                            !.nreq = sess[s].nreq + 1,
                            !.code = code,
                            !.history = sess[s].history]
                    ELSE Returned([nreq |-> sess[s].nreq + 1],
                                  sess[s].history)]
    /\ UNCHANGED <<dir, tmpfiles, history, now, nreq, last, fenceText,
                   fenceOut, ncalls>>

\* create_pdf_from_code, line 381, and lines 444-448 when it fails
CExecute(s) ==
    /\ sess[s].pc = "exec"
    /\ \E status \in Statuses, written \in SUBSET Files :
         /\ Cardinality(written) <= MaxWritten
         /\ status = "launch_failure" => written = {}
         /\ \E exec \in {create_pdf_from_code(TempName(s, sess[s].nreq),
                                              status, written, dir,
                                              tmpfiles, now)} :
              /\ tmpfiles' = exec.tmpfiles
              /\ dir' = exec.dir
              /\ sess' = [sess EXCEPT ![s] =
                   IF exec.result
                   THEN [@ EXCEPT !.pc = "glob", !.written = written]
                   ELSE Returned(@, main_exec_failed(@.history, now, <<"p">>,
                                                     @.code))]
    /\ UNCHANGED <<history, now, nreq, last, fenceText, fenceOut, ncalls>>

\* find_pdf_files, line 119: the names in the directory
CGlob(s) ==
    /\ sess[s].pc = "glob"
    /\ sess' = [sess EXCEPT ![s].pc = "sort", ![s].names = Present(dir)]
    /\ UNCHANGED <<dir, tmpfiles, history, now, nreq, last, fenceText,
                   fenceOut, ncalls>>

\* find_pdf_files, line 121: stat() of every name (a name unlinked since the
\* glob raises and the run ends), then lines 389-398 or 440-443
CSort(s) ==
    /\ sess[s].pc = "sort"
    /\ IF ~(sess[s].names \subseteq Present(dir))
       THEN sess' = [sess EXCEPT ![s] = Returned(@, @.history)]
       ELSE \E pdf_files \in Listings(sess[s].names, dir) :
              sess' = [sess EXCEPT ![s] =
                IF pdf_files = <<>>
                THEN Returned(@, main_no_pdf(@.history, now, <<"p">>, @.code))
                ELSE [@ EXCEPT !.pc = "download",
                               !.names = {},
                               !.listing = pdf_files,
                               !.history = main_pdf_found(@, now, <<"p">>,
                                                          sess[s].code,
                                                          pdf_files)]]
    /\ UNCHANGED <<dir, tmpfiles, history, now, nreq, last, fenceText,
                   fenceOut, ncalls>>

\* lines 407-432: open() and stat() of pdf_file raise when it is gone or
\* cannot be read, and the run ends
CDownload(s) ==
    /\ sess[s].pc = "download"
    /\ \E readable \in BOOLEAN :
         sess' = [sess EXCEPT ![s] =
                    IF dir[sess[s].listing[1]] # Absent /\ readable
                    THEN [@ EXCEPT !.pc = "prune"]
                    ELSE Returned(@, @.history)]
    /\ UNCHANGED <<dir, tmpfiles, history, now, nreq, last, fenceText,
                   fenceOut, ncalls>>

\* lines 435-439, on the listing the session took at line 387
CPrune(s) ==
    /\ sess[s].pc = "prune"
    /\ \E fails \in SUBSET OldPdfs(sess[s].listing) :
         dir' = prune(sess[s].listing, dir, fails)
    /\ sess' = [sess EXCEPT ![s] = Returned(@, @.history)]
    /\ UNCHANGED <<tmpfiles, history, now, nreq, last, fenceText, fenceOut,
                   ncalls>>

\* the two sessions start at time 0, in a directory holding any PDFs
\* written by then
InitConc ==
    /\ now = 0
    /\ dir \in [Files -> {Absent, now}]
    /\ tmpfiles = {}
    /\ history = <<>>
    /\ nreq = 0
    /\ last = Idle
    /\ fenceText = <<>>
    /\ fenceOut = <<>>
    /\ ncalls = 0
    /\ sess = NoRequests

NextConc ==
    \/ \E s \in Sessions : CStart(s)
    \/ \E s \in Sessions : CExecute(s)
    \/ \E s \in Sessions : CGlob(s)
    \/ \E s \in Sessions : CSort(s)
    \/ \E s \in Sessions : CDownload(s)
    \/ \E s \in Sessions : CPrune(s)
    \/ Tick

SpecConc == InitConc /\ [][NextConc]_vars

\* ------------------------------------------------------------------ claims
Handled == last.outcome \notin {"none", "no_prompt"}

\* C1: every request the handler takes (a click with a non-empty prompt)
\* puts exactly one new entry at the head of the history, whatever the stage
\* it ends in.
C1_OneEntryPerRequest ==
    [][nreq' = nreq + 1 =>
         /\ history' # <<>>
         /\ history' = Take(<<history'[1]>> \o history, HistoryCap)]_vars

\* C2: when create_pdf_from_code has returned, the temporary file of that
\* execution is not on disk, whatever the exit path.
C2_TempFileRemoved == last.executed => last.tmp \notin tmpfiles

\* C3: the file taken as the request's PDF was modified at or after the start
\* of the request's execution; an older PDF is never reported.
C3_ArtifactNotStale ==
    (last.executed /\ last.status = "ok" /\ last.pdf_file # NoFile)
        => last.mtimes[last.pdf_file] >= last.start

\* C4: after any sequence of save_to_history calls the history holds at most
\* 10 entries.
C4_HistoryAtMostCap == Len(history) <= HistoryCap

C4_Witness == ncalls > HistoryCap /\ Len(history) = HistoryCap

\* C5: when a request succeeds with 4 or more PDFs in the directory, exactly
\* 3 remain after the prune: the PDF the request produced and the 2 newest
\* of the others. Stated for the runs in which every unlink of the prune
\* succeeds, where nothing but the choice of the files decides it.
C5_PruneLeavesThree ==
    (last.outcome = "success" /\ last.written # {} /\ Len(last.listing) >= 4
        /\ last.deleted = OldPdfs(last.listing))
        => /\ Cardinality(Present(dir)) = KeepCount
           /\ last.written \subseteq Present(dir)
           /\ \A k \in Present(dir) \ last.written :
                \A r \in Range(last.listing) \ Present(dir) :
                    last.mtimes[k] >= last.mtimes[r]

\* C6: the prune of a request never deletes the PDF that the request's own
\* execution produced, also when its time ties with other PDFs and it is not
\* first in the listing.
C6_OwnArtifactKept ==
    last.outcome = "success" => last.written \cap last.deleted = {}

\* C7: when the child exits with code 0 and the listing is empty, the request
\* records a history entry with success false and no file name, and deletes
\* no PDF.
C7_NoPdfIsFailure ==
    [][(nreq' = nreq + 1 /\ last'.executed /\ last'.status = "ok"
            /\ last'.listing = <<>>) =>
         /\ last'.outcome = "no_pdf"
         /\ history' # <<>>
         /\ history' = Take(<<history'[1]>> \o history, HistoryCap)
         /\ history'[1].success = FALSE
         /\ history'[1].filename = NoFile
         /\ ~last'.pruned
         /\ last'.deleted = {}
         /\ dir' = last'.mtimes]_vars

C7_Witness ==
    /\ last.outcome = "no_pdf"
    /\ last.status = "ok"
    /\ last.listing = <<>>
    /\ history # <<>>
    /\ ~history[1].success

\* the stage a request ends in, from the execution and the listing alone
OutcomeOfExecution(r) ==
    IF r.status # "ok" THEN {"exec_failed"}
    ELSE IF r.listing = <<>> THEN {"no_pdf"}
    ELSE {"success", "exception"}

\* C8: screening is advisory: for every synthesized (non-empty) source the
\* execution runs, and the request ends where the execution and the listing
\* put it, with no warning as with any number of warnings.
C8_ScreeningAdvisory ==
    (Handled /\ Truthy(last.code)) =>
        /\ last.executed
        /\ last.outcome \in OutcomeOfExecution(last)

C8_Witness ==
    /\ last.warnings # <<>>
    /\ last.executed
    /\ last.outcome = "success"

NoOuterWhitespace(t) ==
    t = <<>> \/ (t[1] \notin Whitespace /\ t[Len(t)] \notin Whitespace)

C10_RecordThenPrune ==
    (Handled /\ last.listing # <<>>) => (last.recorded /\ last.pruned)

\* f is among the KeepCount newest PDFs of d however ties are ordered
AmongNewest(f, d) ==
    Cardinality({g \in Present(d) \ {f} : d[g] >= d[f]}) < KeepCount

\* C11: with two requests running concurrently in one directory, the prune
\* of one never deletes a PDF that the other has produced and not yet
\* returned from, the locate, record and prune steps being one critical
\* section. Stated for a PDF that a listing taken at the time of the prune
\* would keep.
C11_NoCrossPrune ==
    [][\A s, o \in Sessions :
         (s # o /\ sess[s].pc = "prune" /\ sess'[s].pc = "done"
              /\ sess[o].pc \in InFlight)
           => \A f \in sess[o].written :
                (dir[f] # Absent /\ AmongNewest(f, dir)) => dir'[f] # Absent]_vars

====
